---- MODULE Spec2Model ----
(***************************************************************************)
(* Lifecycle engine of the course bot: the students table (database.py),   *)
(* the enrollment and certificate conversations, the admin commands and    *)
(* the daily expiry / eligibility job (main.py).                           *)
(*                                                                         *)
(* Time is counted in ticks, TicksPerDay ticks to a day.  Handlers are     *)
(* coroutines: an update handler runs to completion before the next update *)
(* is dispatched, and every database access of a handler lies in one       *)
(* stretch of synchronous code, so a handler is one action.  The daily job *)
(* runs as its own task and is split at its awaits (the messaging calls):  *)
(* each job action is "the pending await completes, then the synchronous   *)
(* code runs up to the next await".                                        *)
(*                                                                         *)
(* Calls through context.bot (ban, unban, send_message, send_photo) may    *)
(* fail; replies to the message being handled (reply_text) are taken to    *)
(* arrive.                                                                 *)
(*                                                                         *)
(* The table is persistent and the conversations are not: a run of the bot *)
(* starts from a table earlier runs have left (Past) and empty sessions.   *)
(* SpecConv explores the two conversations, SpecAdmin the admin commands,  *)
(* SpecJob the daily job interleaved with the admin commands and the       *)
(* submissions; Spec is all of it from an empty table.                     *)
(***************************************************************************)
EXTENDS Integers, Sequences, FiniteSets, TLC

\* ---------------------------------------------------------------- bounds
MaxTime == 3
TicksPerDay == 2
MaxCount == 2

\* ------------------------------------------------------------- constants
ADMIN_USER_ID == 0
Users == {1, 2}
Callers == {ADMIN_USER_ID, 1}
\* the users whose messages Spec explores; the other ids are known to the
\* admin commands only
Active == {1}

NULL == "NULL"
NoDate == <<>>

ASKING_FULL_NAME == "ASKING_FULL_NAME"
ASKING_PHONE_NUMBER == "ASKING_PHONE_NUMBER"
ASKING_COURSE_SELECTION == "ASKING_COURSE_SELECTION"
WAITING_FOR_RECEIPT == "WAITING_FOR_RECEIPT"
WAITING_FOR_CERTIFICATE_RECEIPT == "WAITING_FOR_CERTIFICATE_RECEIPT"
END == "END"

\* config['courses']: the courses a configuration file may hold
CourseTable ==
    [c1 |-> [duration_days |-> 1, certificate_wait_days |-> 0],
     c2 |-> [duration_days |-> 1, certificate_wait_days |-> 1]]
Configs == {{"c1", "c2"}, {"c1"}}

\* ---------------------------------------------------------------- inputs
P_local == <<"0","9","1","2","3","4","5","6","7","8">>
P_intl == <<"+","2","5","1","9","1","1","2","2","3","3","4","4">>
P_short == <<"1","2","3">>
P_alpha == <<"a","b","c","d","e","f","g">>
NameInputs == {"n1", "n2"}
PhoneInputs == {P_local, P_intl, P_short, P_alpha}
CourseInputs == {"c1", "c2", "zz"}
Images == {"img1", "img2"}

VARIABLES
    students,       \* the students table, rows in rowid order
    courses,        \* names of config['courses'] (COURSE_OPTIONS)
    now,            \* datetime.datetime.now(), in ticks
    enroll_state,   \* enrollment_conv_handler: state per user
    cert_state,     \* cert_conv_handler: state per user
    user_data,      \* context.user_data per user
    job,            \* check_expiry_and_notify: position and locals
    ev,             \* what the last step did (replies, notices, calls)
    hist            \* per user: whether the last eligibility notice tried
                    \* since the last enrollment submission failed, and the
                    \* eligibility notices delivered, in all and
                    \* since the last enrollment submission

vars == <<students, courses, now, enroll_state, cert_state, user_data, job, ev, hist>>

\* ------------------------------------------------------------ database.py
HasRow(tbl, u) == \E i \in DOMAIN tbl : tbl[i].user_id = u

\* SELECT * FROM students WHERE user_id = ? ; fetchone()
get_student_info(tbl, u) ==
    IF HasRow(tbl, u)
    THEN tbl[CHOOSE i \in DOMAIN tbl :
                 /\ tbl[i].user_id = u
                 /\ \A j \in DOMAIN tbl : tbl[j].user_id = u => i <= j]
    ELSE NULL

\* the row an INSERT creates: the columns given, the others at their DEFAULT
NewRow(u, full_name, phone_number, course_selected, image, chat_id) ==
    [user_id |-> u, full_name |-> full_name, phone_number |-> phone_number,
     course_selected |-> course_selected, payment_receipt_image |-> image,
     payment_status |-> "pending", chat_id |-> chat_id,
     verification_date |-> NoDate, certificate_status |-> "none",
     certificate_receipt_image |-> NULL, certificate_notified |-> FALSE]

add_student_keep_status(tbl, u, full_name, phone_number, course_selected, image, chat_id) ==
    IF ~HasRow(tbl, u)
    THEN Append(tbl, NewRow(u, full_name, phone_number, course_selected, image, chat_id))
    ELSE [i \in DOMAIN tbl |->
            IF tbl[i].user_id = u
            THEN [tbl[i] EXCEPT !.full_name = full_name,
                                !.phone_number = phone_number,
                                !.course_selected = course_selected,
                                !.payment_receipt_image = image,
                                !.chat_id = chat_id]
            ELSE tbl[i]]

\* INSERT; on the UNIQUE(user_id) conflict, the UPDATE of the existing row
add_student(tbl, u, full_name, phone_number, course_selected, image, chat_id) ==
    IF ~HasRow(tbl, u)
    THEN Append(tbl, NewRow(u, full_name, phone_number, course_selected, image, chat_id))
    ELSE [i \in DOMAIN tbl |->
            IF tbl[i].user_id = u
            THEN [tbl[i] EXCEPT !.full_name = full_name,
                                !.phone_number = phone_number,
                                !.course_selected = course_selected,
                                !.payment_receipt_image = image,
                                !.payment_status = "pending",
                                !.chat_id = chat_id,
                                !.verification_date = NoDate,
                                !.certificate_status = "none",
                                !.certificate_receipt_image = NULL,
                                !.certificate_notified = FALSE]
            ELSE tbl[i]]

\* variants of update_payment_status: one that also clears the notified flag,
\* one that writes the date whether one is passed or not
update_payment_status_reset_flag(tbl, u, status, verification_date) ==
    [i \in DOMAIN tbl |->
        IF tbl[i].user_id = u
        THEN IF verification_date # NoDate
             THEN [tbl[i] EXCEPT !.payment_status = status,
                                 !.verification_date = verification_date,
                                 !.certificate_notified = FALSE]
             ELSE [tbl[i] EXCEPT !.payment_status = status,
                                 !.certificate_notified = FALSE]
        ELSE tbl[i]]

update_payment_status_always_date(tbl, u, status, verification_date) ==
    [i \in DOMAIN tbl |->
        IF tbl[i].user_id = u
        THEN [tbl[i] EXCEPT !.payment_status = status,
                            !.verification_date = verification_date]
        ELSE tbl[i]]

\* a variant that never writes the date
update_payment_status_status_only(tbl, u, status, verification_date) ==
    [i \in DOMAIN tbl |->
        IF tbl[i].user_id = u
        THEN [tbl[i] EXCEPT !.payment_status = status]
        ELSE tbl[i]]

\* verification_date is written only when one is passed
update_payment_status(tbl, u, status, verification_date) ==
    [i \in DOMAIN tbl |->
        IF tbl[i].user_id = u
        THEN IF verification_date # NoDate
             THEN [tbl[i] EXCEPT !.payment_status = status,
                                 !.verification_date = verification_date]
             ELSE [tbl[i] EXCEPT !.payment_status = status]
        ELSE tbl[i]]

\* a variant that also drops the stored certificate receipt
update_certificate_status_drops_receipt(tbl, u, status) ==
    [i \in DOMAIN tbl |->
        IF tbl[i].user_id = u
        THEN [tbl[i] EXCEPT !.certificate_status = status,
                            !.certificate_receipt_image = NULL]
        ELSE tbl[i]]

update_certificate_status(tbl, u, status) ==
    [i \in DOMAIN tbl |->
        IF tbl[i].user_id = u
        THEN [tbl[i] EXCEPT !.certificate_status = status]
        ELSE tbl[i]]

\* a variant that marks the application pending without storing the receipt
add_certificate_receipt_status_only(tbl, u, image) ==
    [i \in DOMAIN tbl |->
        IF tbl[i].user_id = u
        THEN [tbl[i] EXCEPT !.certificate_status = "pending"]
        ELSE tbl[i]]

add_certificate_receipt(tbl, u, image) ==
    [i \in DOMAIN tbl |->
        IF tbl[i].user_id = u
        THEN [tbl[i] EXCEPT !.certificate_status = "pending",
                            !.certificate_receipt_image = image]
        ELSE tbl[i]]

update_certificate_notified_lost(tbl, u) == tbl

\* UPDATE students SET certificate_notified = 1 WHERE user_id = ?
update_certificate_notified(tbl, u) ==
    [i \in DOMAIN tbl |->
        IF tbl[i].user_id = u
        THEN [tbl[i] EXCEPT !.certificate_notified = TRUE]
        ELSE tbl[i]]

\* a variant whose write is lost
update_payment_status_to_expired_lost(tbl, u) == tbl

update_payment_status_to_expired(tbl, u) ==
    [i \in DOMAIN tbl |->
        IF tbl[i].user_id = u
        THEN [tbl[i] EXCEPT !.payment_status = "expired"]
        ELSE tbl[i]]

RECURSIVE SelectWhere(_, _)
SelectWhere(tbl, statuses) ==
    IF tbl = <<>> THEN <<>>
    ELSE LET r == Head(tbl)
             rest == SelectWhere(Tail(tbl), statuses)
         IN IF r.payment_status \in statuses
            THEN <<[user_id |-> r.user_id, chat_id |-> r.chat_id,
                    course_selected |-> r.course_selected,
                    verification_date |-> r.verification_date]>> \o rest
            ELSE rest

get_students_for_job_any_status(tbl) == SelectWhere(tbl, {"verified", "expired"})

\* SELECT user_id, chat_id, course_selected, verification_date
\*   FROM students WHERE payment_status = 'verified'
get_verified_students_for_job(tbl) == SelectWhere(tbl, {"verified"})

\* ---------------------------------------------------------------- main.py
get_course_details(cfg, course_name) ==
    IF course_name \in cfg THEN CourseTable[course_name] ELSE NULL

Days(n) == n * TicksPerDay

IsDigit(c) == c \in {"0","1","2","3","4","5","6","7","8","9"}

IsPrefix(p, s) == Len(p) <= Len(s) /\ SubSeq(s, 1, Len(p)) = p

\* a variant: re.match, which lets anything follow the number
ETHIOPIAN_PHONE_REGEX_match(s) ==
    \E p \in {<<"+","2","5","1">>, <<"0">>, <<>>} :
        /\ IsPrefix(p, s)
        /\ LET rest == SubSeq(s, Len(p) + 1, Len(s))
           IN /\ Len(rest) >= 9
              /\ rest[1] \in {"9", "7"}
              /\ \A i \in 2..9 : IsDigit(rest[i])

\* re.fullmatch(r'^(\+251|0)?(9|7)[0-9]{8}$', s)
ETHIOPIAN_PHONE_REGEX(s) ==
    \E p \in {<<"+","2","5","1">>, <<"0">>, <<>>} :
        /\ IsPrefix(p, s)
        /\ LET rest == SubSeq(s, Len(p) + 1, Len(s))
           IN /\ Len(rest) = 9
              /\ rest[1] \in {"9", "7"}
              /\ \A i \in 2..9 : IsDigit(rest[i])

\* what a step did: replies to the caller, notices delivered to the student,
\* messages delivered to the admin channels, group calls made, calls that failed
NoEv == [op |-> "none", user |-> 0, target |-> 0, reply |-> {},
         student |-> {}, admin |-> {}, calls |-> {}, failed |-> {}, days |-> 0,
         arg |-> NULL]

Ev(op, u, t, reply, student, admin, calls) ==
    [op |-> op, user |-> u, target |-> t, reply |-> reply,
     student |-> student, admin |-> admin, calls |-> calls, failed |-> {},
     days |-> 0, arg |-> NULL]

EvF(op, u, t, reply, student, admin, calls, failed) ==
    [Ev(op, u, t, reply, student, admin, calls) EXCEPT !.failed = failed]

EvA(op, u, reply, admin, arg) ==
    [Ev(op, u, u, reply, {}, admin, {}) EXCEPT !.arg = arg]

EmptyData == [telegram_user_id |-> NoDate, chat_id |-> NoDate, full_name |-> NULL,
              phone_number |-> NULL, course_selected |-> NULL, course_name |-> NULL]

\* counters saturate at MaxCount
NoHist == [elig_total |-> 0, elig_epoch |-> 0, elig_owed |-> FALSE]
Inc(n) == IF n < MaxCount THEN n + 1 ELSE n

NoCur == [user_id |-> 0, chat_id |-> 0, course_selected |-> NULL,
          verification_date |-> NoDate]
Idle == [pc |-> "idle", rest |-> <<>>, cur |-> NoCur, full_name |-> NULL]

Init ==
    /\ students = <<>>
    /\ courses = {"c1", "c2"}
    /\ now = 0
    /\ enroll_state = [u \in Users |-> END]
    /\ cert_state = [u \in Users |-> END]
    /\ user_data = [u \in Users |-> EmptyData]
    /\ job = Idle
    /\ ev = NoEv
    /\ hist = [u \in Users |-> NoHist]

\* ------------------------------------------------ enrollment conversation
\* /start: entry point of the enrollment conversation, returns END
start(u) ==
    /\ enroll_state[u] = END
    /\ ev' = Ev("start", u, u, {"welcome"}, {}, {}, {})
    /\ UNCHANGED <<students, courses, now, enroll_state, cert_state, user_data, job, hist>>

start_enrollment_callback(u) ==
    /\ enroll_state[u] = END
    /\ user_data' = [user_data EXCEPT ![u].telegram_user_id = <<u>>,
                                      ![u].chat_id = <<u>>]
    /\ enroll_state' = [enroll_state EXCEPT ![u] = ASKING_FULL_NAME]
    /\ ev' = Ev("start_enrollment", u, u, {"ask_name"}, {}, {}, {})
    /\ UNCHANGED <<students, courses, now, cert_state, job, hist>>

get_full_name(u, text) ==
    /\ enroll_state[u] = ASKING_FULL_NAME
    /\ user_data' = [user_data EXCEPT ![u].full_name = text]
    /\ enroll_state' = [enroll_state EXCEPT ![u] = ASKING_PHONE_NUMBER]
    /\ ev' = Ev("get_full_name", u, u, {"ask_phone"}, {}, {}, {})
    /\ UNCHANGED <<students, courses, now, cert_state, job, hist>>

get_phone_number(u, text) ==
    /\ enroll_state[u] = ASKING_PHONE_NUMBER
    /\ IF ETHIOPIAN_PHONE_REGEX(text)
       THEN /\ user_data' = [user_data EXCEPT ![u].phone_number = text]
            /\ enroll_state' = [enroll_state EXCEPT ![u] = ASKING_COURSE_SELECTION]
            /\ ev' = EvA("get_phone_number", u, {"ask_course"}, {}, text)
       ELSE /\ ev' = EvA("get_phone_number", u, {"invalid_phone"}, {}, text)
            /\ UNCHANGED <<user_data, enroll_state>>
    /\ UNCHANGED <<students, courses, now, cert_state, job, hist>>

\* a variant that takes any text for a course name
AnyCourseOption(cfg, course_selection) == TRUE

\* course_selection in COURSE_OPTIONS
IsCourseOption(cfg, course_selection) == course_selection \in cfg

get_course_selection(u, text) ==
    /\ enroll_state[u] = ASKING_COURSE_SELECTION
    /\ IF IsCourseOption(courses, text)
       THEN /\ user_data' = [user_data EXCEPT ![u].course_selected = text]
            /\ enroll_state' = [enroll_state EXCEPT ![u] = WAITING_FOR_RECEIPT]
            /\ ev' = EvA("get_course_selection", u, {"payment_instructions"}, {}, text)
       ELSE /\ ev' = EvA("get_course_selection", u, {"use_buttons"}, {}, text)
            /\ UNCHANGED <<user_data, enroll_state>>
    /\ UNCHANGED <<students, courses, now, cert_state, job, hist>>

\* photo: send_photo to the admin channel; if it fails, send_message instead,
\* whose failure leaves the handler by an exception (the state is then kept)
receive_receipt(u, image, photo, text) ==
    /\ enroll_state[u] = WAITING_FOR_RECEIPT
    /\ LET d == user_data[u]
       IN students' = add_student(students, Head(d.telegram_user_id), d.full_name,
                                  d.phone_number, d.course_selected, image,
                                  Head(d.chat_id))
    /\ IF photo = "ok"
       THEN /\ ev' = EvA("receive_receipt", u, {"enrollment_success"},
                         {"admin_notification"}, image)
            /\ enroll_state' = [enroll_state EXCEPT ![u] = END]
       ELSE IF text = "ok"
       THEN /\ ev' = EvA("receive_receipt", u, {"enrollment_success"},
                         {"admin_notification_text"}, image)
            /\ enroll_state' = [enroll_state EXCEPT ![u] = END]
       ELSE /\ ev' = EvA("receive_receipt", u, {"enrollment_success"}, {}, image)
            /\ UNCHANGED enroll_state
    /\ hist' = [hist EXCEPT ![u].elig_epoch = 0, ![u].elig_owed = FALSE]
    /\ UNCHANGED <<courses, now, cert_state, user_data, job>>


\* a text that is no command while no handler waits for one: the enrollment
\* conversation takes texts in its three asking states only, the certificate
\* conversation and the other handlers take none, so the update is dropped
unhandled_text(u) ==
    /\ enroll_state[u] \in {END, WAITING_FOR_RECEIPT}
    /\ ev' = Ev("text", u, u, {}, {}, {}, {})
    /\ UNCHANGED <<students, courses, now, enroll_state, cert_state, user_data, job, hist>>

\* the "Apply for Certificate" button of a delivered eligibility notice is
\* pressed: its callback data "start_certificate" matches no registered
\* handler (the certificate conversation is entered by /certificate only),
\* so the update is dropped
start_certificate_button(u) ==
    /\ hist[u].elig_total >= 1
    /\ ev' = Ev("start_certificate", u, u, {}, {}, {}, {})
    /\ UNCHANGED <<students, courses, now, enroll_state, cert_state, user_data, job, hist>>

\* /cancel is a fallback of both conversations; the enrollment handler is
\* registered first and takes it when the user is in an enrollment state
cancel(u) ==
    /\ enroll_state[u] # END \/ cert_state[u] # END
    /\ IF enroll_state[u] # END
       THEN /\ enroll_state' = [enroll_state EXCEPT ![u] = END]
            /\ UNCHANGED cert_state
       ELSE /\ cert_state' = [cert_state EXCEPT ![u] = END]
            /\ UNCHANGED enroll_state
    /\ ev' = Ev("cancel", u, u, {"cancel"}, {}, {}, {})
    /\ UNCHANGED <<students, courses, now, user_data, job, hist>>

\* a plain CallbackQueryHandler: the state it returns is not a conversation's
re_enroll_callback(u) ==
    /\ user_data' = [user_data EXCEPT ![u].telegram_user_id = <<u>>,
                                      ![u].chat_id = <<u>>]
    /\ ev' = Ev("re_enroll", u, u, {"ask_name_again"}, {}, {}, {})
    /\ UNCHANGED <<students, courses, now, enroll_state, cert_state, job, hist>>

\* ----------------------------------------------- certificate conversation
\* a variant that still refuses at the eligible date itself
not_yet_eligible_at_date(t, cert_eligible_date) == t <= cert_eligible_date

\* datetime.datetime.now() < cert_eligible_date: entry is refused
not_yet_eligible(t, cert_eligible_date) == t < cert_eligible_date

\* (cert_eligible_date - now).days + 1, for cert_eligible_date > now
days_left(cert_eligible_date, t) == ((cert_eligible_date - t) \div TicksPerDay) + 1

HasRecord(tbl, u) == HasRow(tbl, u)

\* a variant that also refuses an applicant whose certificate was denied
IsEnrolled_not_denied(tbl, u) ==
    /\ HasRow(tbl, u)
    /\ get_student_info(tbl, u).payment_status = "verified"
    /\ get_student_info(tbl, u).certificate_status # "denied"

\* not student_info or student_info[6] != 'verified' refuses the entry
IsEnrolled(tbl, u) ==
    HasRow(tbl, u) /\ get_student_info(tbl, u).payment_status = "verified"

\* /certificate: the entry point is tried only outside the conversation
certificate_entry(u) ==
    /\ cert_state[u] = END
    /\ LET info == get_student_info(students, u)
       IN IF ~IsEnrolled(students, u)
          THEN /\ ev' = Ev("certificate", u, u, {"not_enrolled"}, {}, {}, {})
               /\ UNCHANGED <<cert_state, user_data>>
          ELSE IF info.course_selected \notin courses
          THEN /\ ev' = Ev("certificate", u, u, {"course_not_found"}, {}, {}, {})
               /\ UNCHANGED <<cert_state, user_data>>
          ELSE IF info.verification_date = NoDate
          THEN \* strptime(None) raises: the handler ends without a reply
               /\ ev' = Ev("certificate", u, u, {}, {}, {}, {})
               /\ UNCHANGED <<cert_state, user_data>>
          ELSE LET wait_days == get_course_details(courses, info.course_selected).certificate_wait_days
                   cert_eligible_date == Head(info.verification_date) + Days(wait_days)
               IN IF not_yet_eligible(now, cert_eligible_date)
                  THEN /\ ev' = [Ev("certificate", u, u, {"not_yet_eligible"}, {}, {}, {})
                                   EXCEPT !.days = days_left(cert_eligible_date, now)]
                       /\ UNCHANGED <<cert_state, user_data>>
                  ELSE /\ user_data' = [user_data EXCEPT ![u].course_name = info.course_selected]
                       /\ cert_state' = [cert_state EXCEPT ![u] = WAITING_FOR_CERTIFICATE_RECEIPT]
                       /\ ev' = Ev("certificate", u, u, {"certificate_ask"}, {}, {}, {})
    /\ UNCHANGED <<students, courses, now, enroll_state, job, hist>>

\* a photo goes to the enrollment conversation first when it waits for one
receive_certificate_receipt(u, image, photo, text) ==
    /\ cert_state[u] = WAITING_FOR_CERTIFICATE_RECEIPT
    /\ enroll_state[u] # WAITING_FOR_RECEIPT
    /\ students' = add_certificate_receipt(students, u, image)
    /\ IF ~HasRow(students, u)
       THEN \* get_student_info(user_id)[2] raises on a missing row
            /\ ev' = EvA("receive_certificate_receipt", u, {"certificate_pending"}, {}, image)
            /\ UNCHANGED cert_state
       ELSE IF photo = "ok"
       THEN /\ ev' = EvA("receive_certificate_receipt", u, {"certificate_pending"},
                         {"certificate_pending_admin_notification"}, image)
            /\ cert_state' = [cert_state EXCEPT ![u] = END]
       ELSE IF text = "ok"
       THEN /\ ev' = EvA("receive_certificate_receipt", u, {"certificate_pending"},
                         {"certificate_pending_admin_notification_text"}, image)
            /\ cert_state' = [cert_state EXCEPT ![u] = END]
       ELSE /\ ev' = EvA("receive_certificate_receipt", u, {"certificate_pending"}, {}, image)
            /\ UNCHANGED cert_state
    /\ UNCHANGED <<courses, now, enroll_state, user_data, job, hist>>

\* ---------------------------------------------------------- admin commands
AuthorizedAnyone(caller) == TRUE

\* update.effective_user.id != ADMIN_USER_ID refuses the command
Authorized(caller) == caller = ADMIN_USER_ID

NeverAlready(current, requested) == FALSE

\* status == 'verified' (and its like in the other commands): nothing to do
AlreadyInState(current, requested) == current = requested

Refused(op, caller, t, reply) ==
    /\ ev' = Ev(op, caller, t, {reply}, {}, {}, {})
    /\ UNCHANGED students

\* the except branch of verify, entered with the error e of the failed call:
\* the error is reported; for "user is a bot" the student is written to, and
\* a failure of that send leaves the handler before the last reply
verify_except(caller, t, e, calls, failed, send2) ==
    IF e = "bot"
    THEN IF send2 = "ok"
         THEN ev' = EvF("verify", caller, t, {"group_error", "status_updated_group_failed"},
                        {"verified_fallback"}, {}, calls \cup {"send_fallback"}, failed)
         ELSE ev' = EvF("verify", caller, t, {"group_error"}, {}, {},
                        calls \cup {"send_fallback"}, failed \cup {"send_fallback"})
    ELSE ev' = EvF("verify", caller, t, {"group_error", "status_updated_group_failed"},
                   {}, {}, calls, failed)

\* a variant that resolves the course before it writes the row
verify_lookup_first(caller, t, unban, send, send2) ==
    /\ IF ~Authorized(caller)
       THEN Refused("verify", caller, t, "not_authorized")
       ELSE IF ~HasRow(students, t)
       THEN Refused("verify", caller, t, "not_found")
       ELSE LET info == get_student_info(students, t)
            IN IF AlreadyInState(info.payment_status, "verified")
               THEN Refused("verify", caller, t, "already")
               ELSE IF info.course_selected \notin courses
               THEN Refused("verify", caller, t, "course_not_found")
               ELSE /\ students' = update_payment_status(students, info.user_id, "verified", <<now>>)
                    /\ IF unban # "ok"
                       THEN verify_except(caller, t, unban, {"unban"}, {"unban"}, send2)
                       ELSE IF send # "ok"
                       THEN verify_except(caller, t, send, {"unban", "send_student"},
                                          {"send_student"}, send2)
                       ELSE ev' = Ev("verify", caller, t, {"verification_success_admin"},
                                     {"verification_success_student"}, {},
                                     {"unban", "send_student"})
    /\ UNCHANGED <<courses, now, enroll_state, cert_state, user_data, job, hist>>

\* /verify_<id>; unban, send, send2: how unban_chat_member, the student's
\* notice and the fallback notice end ("ok", "err", or "bot": an error whose
\* text holds "user is a bot")
verify(caller, t, unban, send, send2) ==
    /\ IF ~Authorized(caller)
       THEN Refused("verify", caller, t, "not_authorized")
       ELSE IF ~HasRow(students, t)
       THEN Refused("verify", caller, t, "not_found")
       ELSE LET info == get_student_info(students, t)
            IN IF AlreadyInState(info.payment_status, "verified")
               THEN Refused("verify", caller, t, "already")
               ELSE /\ students' = update_payment_status(students, info.user_id, "verified", <<now>>)
                    /\ IF info.course_selected \notin courses
                       THEN ev' = Ev("verify", caller, t, {"course_not_found"}, {}, {}, {})
                       ELSE IF unban # "ok"
                       THEN verify_except(caller, t, unban, {"unban"}, {"unban"}, send2)
                       ELSE IF send # "ok"
                       THEN verify_except(caller, t, send, {"unban", "send_student"},
                                          {"send_student"}, send2)
                       ELSE ev' = Ev("verify", caller, t, {"verification_success_admin"},
                                     {"verification_success_student"}, {},
                                     {"unban", "send_student"})
    /\ UNCHANGED <<courses, now, enroll_state, cert_state, user_data, job, hist>>

\* deny, cert_verify and cert_deny share one shape: the status write, then the
\* student's notice by send_message (its failure leaves the handler), then the
\* admin's confirmation
StatusCommand(op, caller, t, send, current, requested, written, notice, confirm) ==
    /\ IF ~Authorized(caller)
       THEN Refused(op, caller, t, "not_authorized")
       ELSE IF ~HasRow(students, t)
       THEN Refused(op, caller, t, "not_found")
       ELSE IF AlreadyInState(current, requested)
       THEN Refused(op, caller, t, "already")
       ELSE /\ students' = written
            /\ IF send = "ok"
               THEN ev' = Ev(op, caller, t, {confirm}, {notice}, {}, {"send_student"})
               ELSE ev' = EvF(op, caller, t, {}, {}, {}, {"send_student"}, {"send_student"})
    /\ UNCHANGED <<courses, now, enroll_state, cert_state, user_data, job, hist>>

Column(tbl, t, payment) ==
    IF ~HasRow(tbl, t) THEN NULL
    ELSE IF payment THEN get_student_info(tbl, t).payment_status
    ELSE get_student_info(tbl, t).certificate_status

deny(caller, t, send) ==
    StatusCommand("deny", caller, t, send, Column(students, t, TRUE), "denied",
                  update_payment_status(students, t, "denied", NoDate),
                  "verification_fail_student", "verification_fail_admin")

cert_verify(caller, t, send) ==
    StatusCommand("cert_verify", caller, t, send, Column(students, t, FALSE), "verified",
                  update_certificate_status(students, t, "verified"),
                  "certificate_verified_student", "certificate_verified_admin")

cert_deny(caller, t, send) ==
    StatusCommand("cert_deny", caller, t, send, Column(students, t, FALSE), "denied",
                  update_certificate_status(students, t, "denied"),
                  "certificate_denied_student", "certificate_denied_admin")

\* /reload_config: the configuration file may hold any of Configs
reload_config(caller, cfg) ==
    /\ IF caller # ADMIN_USER_ID
       THEN /\ ev' = Ev("reload_config", caller, caller, {"not_authorized"}, {}, {}, {})
            /\ UNCHANGED courses
       ELSE /\ courses' = cfg
            /\ ev' = Ev("reload_config", caller, caller, {"reloaded"}, {}, {}, {})
    /\ UNCHANGED <<students, now, enroll_state, cert_state, user_data, job, hist>>

\* ------------------------------------------- check_expiry_and_notify (job)
\* The synchronous code of the loop, from a given point up to the next await.
\* JobLoop: the head of the for loop over the rows still to visit.
\* JobElig: the eligibility check of the current row (after its expiry part).
RECURSIVE JobLoop(_, _, _, _)
RECURSIVE JobElig(_, _, _, _, _)
JobElig(tbl, cfg, t, cur, rest) ==
    LET cert_eligible_date ==
            Head(cur.verification_date) + Days(CourseTable[cur.course_selected].certificate_wait_days)
        info == get_student_info(tbl, cur.user_id)
    IN IF /\ HasRow(tbl, cur.user_id)
          /\ t > cert_eligible_date
          /\ ~info.certificate_notified
          /\ info.certificate_status = "none"
       THEN [pc |-> "elig_send", rest |-> rest, cur |-> cur, full_name |-> info.full_name]
       ELSE JobLoop(tbl, cfg, t, rest)

JobLoop(tbl, cfg, t, rest) ==
    IF rest = <<>> THEN Idle
    ELSE LET cur == Head(rest)
         IN IF cur.course_selected \notin cfg
            THEN JobLoop(tbl, cfg, t, Tail(rest))
            ELSE IF cur.verification_date = NoDate
            THEN Idle   \* strptime(None) raises: the job ends
            ELSE LET expiry_date ==
                         Head(cur.verification_date) + Days(CourseTable[cur.course_selected].duration_days)
                 IN IF t > expiry_date /\ HasRow(tbl, cur.user_id)
                    THEN [pc |-> "ban", rest |-> Tail(rest), cur |-> cur,
                          full_name |-> get_student_info(tbl, cur.user_id).full_name]
                    ELSE JobElig(tbl, cfg, t, cur, Tail(rest))

JobEv(t, student, admin, calls, failed) ==
    EvF("job", 0, t, {}, student, admin, calls, failed)

\* the job starts: the snapshot of the verified rows, then the loop
JobStart ==
    /\ job.pc = "idle"
    /\ job' = JobLoop(students, courses, now, get_verified_students_for_job(students))
    /\ ev' = Ev("job_start", 0, 0, {}, {}, {}, {})
    /\ UNCHANGED <<students, courses, now, enroll_state, cert_state, user_data, hist>>

\* update_payment_status_to_expired, then the student's notice is awaited
JobExpire(calls, failed) ==
    LET u == job.cur.user_id
    IN /\ students' = update_payment_status_to_expired(students, u)
       /\ job' = [job EXCEPT !.pc = "notify_student"]
       /\ ev' = [JobEv(u, {}, {}, calls, failed) EXCEPT !.op = "job_expire"]

\* a variant in which a failed ban skips the write of expired
JobBan_no_write_on_failure(outcome) ==
    /\ job.pc = "ban"
    /\ IF outcome = "ok"
       THEN /\ job' = [job EXCEPT !.pc = "unban"]
            /\ ev' = JobEv(job.cur.user_id, {}, {}, {"ban"}, {})
       ELSE /\ job' = [job EXCEPT !.pc = "notify_student"]
            /\ ev' = [JobEv(job.cur.user_id, {}, {}, {"ban"}, {"ban"}) EXCEPT !.op = "job_expire"]
    /\ UNCHANGED <<students, courses, now, enroll_state, cert_state, user_data, hist>>

\* ban_chat_member returns or raises
JobBan(outcome) ==
    /\ job.pc = "ban"
    /\ IF outcome = "ok"
       THEN /\ job' = [job EXCEPT !.pc = "unban"]
            /\ ev' = JobEv(job.cur.user_id, {}, {}, {"ban"}, {})
            /\ UNCHANGED students
       ELSE JobExpire({"ban"}, {"ban"})
    /\ UNCHANGED <<courses, now, enroll_state, cert_state, user_data, hist>>

\* unban_chat_member returns or raises
JobUnban(outcome) ==
    /\ job.pc = "unban"
    /\ JobExpire({"unban"}, IF outcome = "ok" THEN {} ELSE {"unban"})
    /\ UNCHANGED <<courses, now, enroll_state, cert_state, user_data, hist>>

\* a variant in which a failed expiry notice ends the run
JobNotifyStudent_abort(outcome) ==
    /\ job.pc = "notify_student"
    /\ LET u == job.cur.user_id
       IN IF outcome = "ok"
          THEN /\ ev' = JobEv(u, {"course_expiry_student"}, {}, {}, {})
               /\ job' = [job EXCEPT !.pc = "notify_admin"]
          ELSE /\ ev' = JobEv(u, {}, {}, {}, {"send"})
               /\ job' = Idle
    /\ UNCHANGED <<students, courses, now, enroll_state, cert_state, user_data, hist>>

\* the student's expiry notice returns or raises; the admin's is awaited
JobNotifyStudent(outcome) ==
    /\ job.pc = "notify_student"
    /\ LET u == job.cur.user_id
       IN IF outcome = "ok"
          THEN ev' = JobEv(u, {"course_expiry_student"}, {}, {}, {})
          ELSE ev' = JobEv(u, {}, {}, {}, {"send"})
    /\ job' = [job EXCEPT !.pc = "notify_admin"]
    /\ UNCHANGED <<students, courses, now, enroll_state, cert_state, user_data, hist>>

\* the admin's expiry notice returns or raises; then the eligibility check
JobNotifyAdmin(outcome) ==
    /\ job.pc = "notify_admin"
    /\ IF outcome = "ok"
       THEN ev' = JobEv(job.cur.user_id, {}, {"course_expiry_admin"}, {}, {})
       ELSE ev' = JobEv(job.cur.user_id, {}, {}, {}, {"send_admin"})
    /\ job' = JobElig(students, courses, now, job.cur, job.rest)
    /\ UNCHANGED <<students, courses, now, enroll_state, cert_state, user_data, hist>>

\* a variant that writes the flag before the send is awaited
JobEligSend_write_first(outcome) ==
    /\ job.pc = "elig_send"
    /\ LET u == job.cur.user_id
       IN /\ students' = update_certificate_notified(students, u)
          /\ IF outcome = "ok"
             THEN /\ hist' = [hist EXCEPT ![u].elig_total = Inc(@), ![u].elig_epoch = Inc(@),
                                          ![u].elig_owed = FALSE]
                  /\ ev' = [JobEv(u, {"certificate_eligibility"}, {}, {}, {}) EXCEPT !.op = "job_elig"]
             ELSE /\ ev' = [JobEv(u, {}, {}, {}, {"send"}) EXCEPT !.op = "job_elig"]
                  /\ hist' = [hist EXCEPT ![u].elig_owed = TRUE]
    /\ job' = JobLoop(students', courses, now, job.rest)
    /\ UNCHANGED <<courses, now, enroll_state, cert_state, user_data>>

\* the eligibility notice returns (the flag is set) or raises; then the loop
JobEligSend(outcome) ==
    /\ job.pc = "elig_send"
    /\ LET u == job.cur.user_id
       IN IF outcome = "ok"
          THEN /\ students' = update_certificate_notified(students, u)
               /\ hist' = [hist EXCEPT ![u].elig_total = Inc(@), ![u].elig_epoch = Inc(@),
                                        ![u].elig_owed = FALSE]
               /\ ev' = [JobEv(u, {"certificate_eligibility"}, {}, {}, {}) EXCEPT !.op = "job_elig"]
          ELSE /\ ev' = [JobEv(u, {}, {}, {}, {"send"}) EXCEPT !.op = "job_elig"]
               /\ hist' = [hist EXCEPT ![u].elig_owed = TRUE]
               /\ UNCHANGED students
    /\ job' = JobLoop(students', courses, now, job.rest)
    /\ UNCHANGED <<courses, now, enroll_state, cert_state, user_data>>

Tick ==
    /\ now < MaxTime
    /\ now' = now + 1
    /\ ev' = NoEv
    /\ UNCHANGED <<students, courses, enroll_state, cert_state, user_data, job, hist>>

\* ------------------------------------------------------------ the runs
Results == {"ok", "err"}

\* how the two sends of a receipt handler may end: photo, then text
ReceiptRuns == {<<"ok", "ok">>, <<"err", "ok">>, <<"err", "err">>}

\* how unban, the student's notice and the fallback notice of verify may end
VerifyRuns ==
    {<<"ok", "ok", "ok">>, <<"ok", "err", "ok">>, <<"ok", "bot", "ok">>,
     <<"ok", "bot", "err">>, <<"err", "ok", "ok">>, <<"bot", "ok", "ok">>,
     <<"bot", "ok", "err">>}

\* the messages that lead to a submission, and the two submissions
Submissions(U, names, phones, cnames, images) ==
    \/ \E u \in U : start_enrollment_callback(u)
    \/ \E u \in U, t \in names : get_full_name(u, t)
    \/ \E u \in U, t \in phones : get_phone_number(u, t)
    \/ \E u \in U, t \in cnames : get_course_selection(u, t)
    \/ \E u \in U, i \in images, r \in ReceiptRuns : receive_receipt(u, i, r[1], r[2])
    \/ \E u \in U : certificate_entry(u)
    \/ \E u \in U, i \in images, r \in ReceiptRuns :
           receive_certificate_receipt(u, i, r[1], r[2])

Conversation(U, names, phones, cnames, images) ==
    \/ Submissions(U, names, phones, cnames, images)
    \/ \E u \in U : start(u)
    \/ \E u \in U : cancel(u)
    \/ \E u \in U : re_enroll_callback(u)
    \/ \E u \in U : unhandled_text(u)
    \/ \E u \in U : start_certificate_button(u)

Admin(C, T) ==
    \/ \E c \in C, t \in T, r \in VerifyRuns : verify(c, t, r[1], r[2], r[3])
    \/ \E c \in C, t \in T, a \in Results : deny(c, t, a)
    \/ \E c \in C, t \in T, a \in Results : cert_verify(c, t, a)
    \/ \E c \in C, t \in T, a \in Results : cert_deny(c, t, a)

Job ==
    \/ JobStart
    \/ \E a \in Results : JobBan(a)
    \/ \E a \in Results : JobUnban(a)
    \/ \E a \in Results : JobNotifyStudent(a)
    \/ \E a \in Results : JobNotifyAdmin(a)
    \/ \E a \in Results : JobEligSend(a)

\* ---- the tables earlier runs leave, each with the earliest time it exists at
\* (user 1, enrolled at time 0 and, where verified, verified at time 0); every
\* one of them is a state SpecJob reaches from the empty table
T_pending(c) == add_student(<<>>, 1, "n1", P_local, c, "img1", 1)
T_denied(c) == update_payment_status(T_pending(c), 1, "denied", NoDate)
T_verified(c) == update_payment_status(T_pending(c), 1, "verified", <<0>>)
T_notified(c) == update_certificate_notified(T_verified(c), 1)
T_applied(c) == add_certificate_receipt(T_verified(c), 1, "img1")
T_cert_denied(c) == update_certificate_status(T_applied(c), 1, "denied")
T_expired(c) == update_payment_status_to_expired(T_verified(c), 1)
T_expired_notified(c) == update_payment_status_to_expired(T_notified(c), 1)

EligibleAt(c) == Days(CourseTable[c].certificate_wait_days)
ExpiresAt(c) == Days(CourseTable[c].duration_days)
Later(a, b) == IF a > b THEN a ELSE b

PastOf(tbl, t, n) == [students |-> tbl, now |-> t, notices |-> n]

Past ==
    {PastOf(<<>>, 0, 0)}
    \cup {PastOf(T_pending(c), 0, 0) : c \in DOMAIN CourseTable}
    \cup {PastOf(T_denied(c), 0, 0) : c \in DOMAIN CourseTable}
    \cup {PastOf(T_verified(c), 0, 0) : c \in DOMAIN CourseTable}
    \cup {PastOf(T_notified(c), EligibleAt(c) + 1, 1) :
              c \in {x \in DOMAIN CourseTable : EligibleAt(x) < ExpiresAt(x)}}
    \cup {PastOf(T_applied(c), EligibleAt(c), 0) : c \in DOMAIN CourseTable}
    \cup {PastOf(T_cert_denied(c), EligibleAt(c), 0) : c \in DOMAIN CourseTable}
    \cup {PastOf(T_expired(c), ExpiresAt(c) + 1, 0) : c \in DOMAIN CourseTable}
    \cup {PastOf(T_expired_notified(c), Later(ExpiresAt(c), EligibleAt(c)) + 1, 1) :
              c \in DOMAIN CourseTable}

InitFrom(p) ==
    /\ students = p.students
    /\ now = p.now
    /\ hist = [u \in Users |->
                 IF u = 1 THEN [elig_total |-> p.notices, elig_epoch |-> p.notices,
                               elig_owed |-> FALSE]
                 ELSE NoHist]
    /\ courses = {"c1", "c2"}
    /\ enroll_state = [u \in Users |-> END]
    /\ cert_state = [u \in Users |-> END]
    /\ user_data = [u \in Users |-> EmptyData]
    /\ job = Idle
    /\ ev = NoEv

\* ---- the conversations, the table as earlier runs left it
InitConv == \E p \in Past : p.now <= MaxTime /\ InitFrom(p)

NextConv ==
    \/ Conversation(Active, NameInputs, PhoneInputs, CourseInputs, Images)
    \/ Tick

SpecConv == InitConv /\ [][NextConv]_vars

\* ---- the admin commands, by the admin and by another caller
InitAdmin == \E p \in Past : p.now <= MaxTime /\ InitFrom(p)

NextAdmin ==
    \/ Admin(Callers, Users)
    \/ \E c \in Callers, cfg \in Configs : reload_config(c, cfg)
    \/ Tick

SpecAdmin == InitAdmin /\ [][NextAdmin]_vars

\* ---- the phone question alone, over texts around the pattern: each lead
\* before each body, and the four texts above
PhoneLeads == {<<>>, <<"0">>, <<"+","2","5","1">>, <<"+","2","5">>, <<"2","5","1">>,
               <<"0","0">>, <<"+">>}
PhoneBodies ==
    {<<"9","1","2","3","4","5","6","7","8">>,
     <<"7","0","0","0","0","0","0","0","0">>,
     <<"8","1","2","3","4","5","6","7","8">>,
     <<"9","1","2","3","4","5","6","7">>,
     <<"9","1","2","3","4","5","6","7","8","9">>,
     <<"9","1","2","3","a","5","6","7","8">>,
     <<"9","1","2","3","4","5","6","7"," ">>,
     <<>>}
PhoneTexts == {l \o b : l \in PhoneLeads, b \in PhoneBodies} \cup PhoneInputs

InitPhone == InitFrom(PastOf(<<>>, 0, 0))

NextPhone ==
    \/ \E u \in Active : start_enrollment_callback(u)
    \/ \E u \in Active, t \in NameInputs : get_full_name(u, t)
    \/ \E u \in Active, t \in PhoneTexts : get_phone_number(u, t)
    \/ \E u \in Active : cancel(u)

SpecPhone == InitPhone /\ [][NextPhone]_vars

\* ---- the daily job, the admin's commands and the student's submissions
InitJob == InitFrom(PastOf(<<>>, 0, 0))

NextJob ==
    \/ Job
    \/ Admin({ADMIN_USER_ID}, Active)
    \/ Submissions(Active, {"n1"}, {P_local}, {"c1", "c2"}, {"img1"})
    \/ Tick

SpecJob == InitJob /\ [][NextJob]_vars

\* ---- the daily job alone, over two verified rows and either configuration
Enrolled(tbl, u, c) == add_student(tbl, u, "n1", P_local, c, "img1", u)
T_two(c, d) ==
    update_payment_status(Enrolled(T_verified(c), 2, d), 2, "verified", <<0>>)

InitSweep ==
    /\ \E c \in DOMAIN CourseTable, d \in DOMAIN CourseTable : students = T_two(c, d)
    /\ courses \in Configs
    /\ now = 0
    /\ hist = [u \in Users |-> NoHist]
    /\ enroll_state = [u \in Users |-> END]
    /\ cert_state = [u \in Users |-> END]
    /\ user_data = [u \in Users |-> EmptyData]
    /\ job = Idle
    /\ ev = NoEv

NextSweep ==
    \/ Job
    \/ Tick

SpecSweep == InitSweep /\ [][NextSweep]_vars

\* ---- the same with the job kept running: run_daily starts a run every day
\* and every awaited call returns or raises
FairSweep == SpecSweep /\ WF_vars(Job)

\* ---- the job kept running among enrollments and admin commands
FairJob == SpecJob /\ WF_vars(Job)

\* ---- the admin commands and reload_config with the job running
NextCatalog ==
    \/ Admin({ADMIN_USER_ID}, Active)
    \/ \E cfg \in Configs : reload_config(ADMIN_USER_ID, cfg)
    \/ Job
    \/ Tick

SpecCatalog == InitAdmin /\ [][NextCatalog]_vars

\* ---- all of it
Next ==
    \/ Conversation(Active, NameInputs, PhoneInputs, CourseInputs, Images)
    \/ Admin(Callers, Users)
    \/ \E c \in Callers, cfg \in Configs : reload_config(c, cfg)
    \/ Job
    \/ Tick

Spec == Init /\ [][Next]_vars

\* ================================================================ claims
Row(u) == get_student_info(students, u)
RowAfter(u) == get_student_info(students', u)
AdminOps == {"verify", "deny", "cert_verify", "cert_deny"}
RefusalReplies == {"not_authorized", "not_found", "already"}

\* C1: a receipt submitted by a user who already has a row leaves exactly one
\* row for that user, reset to pending with no verification date, no
\* certificate status, receipt or notified flag, and holding the name, phone,
\* course and image just submitted.
C1_ReEnrollmentResets ==
    [][\A u \in Active :
         (ev'.op = "receive_receipt" /\ ev'.user = u /\ HasRow(students, u)) =>
            /\ Cardinality({i \in DOMAIN students' : students'[i].user_id = u}) = 1
            /\ Len(students') = Len(students)
            /\ RowAfter(u).payment_status = "pending"
            /\ RowAfter(u).verification_date = NoDate
            /\ RowAfter(u).certificate_status = "none"
            /\ RowAfter(u).certificate_receipt_image = NULL
            /\ RowAfter(u).certificate_notified = FALSE
            /\ RowAfter(u).full_name = user_data[u].full_name
            /\ RowAfter(u).phone_number = user_data[u].phone_number
            /\ RowAfter(u).course_selected = user_data[u].course_selected
            /\ RowAfter(u).payment_receipt_image = ev'.arg]_vars

\* a student who had been sent the eligibility notice has enrolled again,
\* with another name and another image than the row held
C1_Witness ==
    /\ ev.op = "receive_receipt"
    /\ hist[1].elig_total = 1
    /\ HasRow(students, 1)
    /\ Row(1).payment_status = "pending"
    /\ Row(1).full_name = "n2"
    /\ Row(1).payment_receipt_image = "img2"

\* C5: /certificate by a user with no row, or with a row that is not verified,
\* creates no certificate session, changes no row and is answered by the
\* rejection.
C5_CertificateGate ==
    [][\A u \in Active :
         (ev'.op = "certificate" /\ ev'.user = u /\ ~(HasRow(students, u) /\ Row(u).payment_status = "verified")) =>
            /\ cert_state'[u] = END
            /\ students' = students
            /\ ev'.reply = {"not_enrolled"}]_vars

\* an expired student has asked for the certificate and was turned away
C5_Witness ==
    /\ ev.op = "certificate"
    /\ ev.reply = {"not_enrolled"}
    /\ HasRow(students, 1)
    /\ Row(1).payment_status = "expired"
    /\ cert_state[1] = END

\* the column an admin command writes and the value it requests
Requested(op) == IF op \in {"verify", "cert_verify"} THEN "verified" ELSE "denied"
Written(tbl, op, t) ==
    IF op \in {"verify", "deny"}
    THEN get_student_info(tbl, t).payment_status
    ELSE get_student_info(tbl, t).certificate_status

\* C2: verify, deny, cert_verify and cert_deny by the admin on an existing
\* row: when the column already holds the requested value the call writes
\* nothing (verification_date included), answers "already" and sends the
\* student nothing; otherwise it writes the requested value (verify: with
\* verification_date = now).  So of two calls in succession only the first
\* changes the row.
C2_IdempotentCommands ==
    [][\A t \in Users :
         (/\ ev'.op \in AdminOps /\ ev'.user = ADMIN_USER_ID /\ ev'.target = t
          /\ HasRow(students, t)) =>
            IF Written(students, ev'.op, t) = Requested(ev'.op)
            THEN /\ students' = students
                 /\ ev'.reply = {"already"}
                 /\ ev'.student = {}
                 /\ ev'.calls = {}
            ELSE /\ Written(students', ev'.op, t) = Requested(ev'.op)
                 /\ ev'.reply # {"already"}
                 /\ ev'.op = "verify" => RowAfter(t).verification_date = <<now>>]_vars

\* verify at time 1, then verify again at time 2: "already", the date is kept
C2_Witness ==
    /\ ev.op = "verify"
    /\ ev.reply = {"already"}
    /\ HasRow(students, 1)
    /\ Row(1).verification_date = <<1>>
    /\ now = 2

\* C8: an admin command by another caller than the admin, or for an id with
\* no row, changes no row, makes no group call, sends the student nothing and
\* is answered by the refusal (not authorized, respectively not found).
C8_RefusedCommandChangesNothing ==
    [][(ev'.op \in AdminOps /\ (ev'.user # ADMIN_USER_ID \/ ~HasRow(students, ev'.target))) =>
            /\ students' = students
            /\ ev'.calls = {}
            /\ ev'.student = {}
            /\ ev'.reply = IF ev'.user # ADMIN_USER_ID
                           THEN {"not_authorized"} ELSE {"not_found"}]_vars

\* user 1 has tried to verify the own pending enrollment
C8_Witness ==
    /\ ev.op = "verify"
    /\ ev.user = 1
    /\ ev.target = 1
    /\ ev.reply = {"not_authorized"}
    /\ HasRow(students, 1)
    /\ Row(1).payment_status = "pending"

\* C9: when unban_chat_member fails after verify has written the row, the row
\* stays verified with its date and the admin is told that the status was
\* updated but the group step failed.
C9_PartialFailureReported ==
    (ev.op = "verify" /\ "unban" \in ev.failed) =>
        /\ HasRow(students, ev.target)
        /\ Row(ev.target).payment_status = "verified"
        /\ Row(ev.target).verification_date # NoDate
        /\ "status_updated_group_failed" \in ev.reply

\* C10: whenever verify writes the row, the student is sent a verification
\* notice and the admin a confirmation, however the group call ends.
C10_VerifyNotifiesBoth ==
    (ev.op = "verify" /\ ev.reply \cap RefusalReplies = {}) =>
        /\ ev.calls \cap {"send_student", "send_fallback"} # {}
        /\ ev.reply \cap {"verification_success_admin", "status_updated_group_failed"} # {}

\* the users the running job still has to handle
Scheduled(j) ==
    IF j.pc = "idle" THEN {}
    ELSE {j.cur.user_id} \cup {j.rest[i].user_id : i \in DOMAIN j.rest}

\* the row's course has run out at time t
Due(r, t) ==
    /\ r.verification_date # NoDate
    /\ t > Head(r.verification_date) + Days(CourseTable[r.course_selected].duration_days)

\* C3: a job run that starts on a verified row whose course has run out
\* schedules the row, and its expiry step leaves the row expired; a job run
\* that starts on a row that is not verified (the run right after, say) does
\* not schedule it, and a job step acts only on the row it has scheduled: no
\* second write, no second notice.
C3_ExpiryIdempotence ==
    [][\A u \in Active :
         /\ (/\ ev'.op = "job_start" /\ HasRow(students, u)
             /\ Row(u).payment_status = "verified"
             /\ Row(u).course_selected \in courses
             /\ Due(Row(u), now)) => u \in Scheduled(job')
         /\ (ev'.op = "job_expire" /\ ev'.target = u /\ HasRow(students, u)) =>
                RowAfter(u).payment_status = "expired"
         /\ (/\ ev'.op = "job_start" /\ HasRow(students, u)
             /\ Row(u).payment_status # "verified") => u \notin Scheduled(job')
         /\ (ev'.op \in {"job", "job_expire", "job_elig"} /\ u \notin Scheduled(job)) =>
                /\ ev'.target # u
                /\ students' = students]_vars

\* the row was expired by one run, and the next run has started and is over
C3_Witness ==
    /\ ev.op = "job_start"
    /\ job.pc = "idle"
    /\ HasRow(students, 1)
    /\ Row(1).payment_status = "expired"
    /\ Due(Row(1), now)

\* C4 (as stated): at most one eligibility notice is ever delivered to a user.
C4_OneNoticePerRecord == \A u \in Active : hist[u].elig_total <= 1

\* C4 (amended): at most one eligibility notice is delivered to a user per
\* enrollment submission; a later receipt submission clears the flag and
\* starts a new count.
C4_OneNoticePerEnrollment == \A u \in Active : hist[u].elig_epoch <= 1

\* the notice has been delivered and the flag is set
C4_Witness ==
    /\ ev.op = "job_elig"
    /\ "certificate_eligibility" \in ev.student
    /\ HasRow(students, 1)
    /\ Row(1).certificate_notified
    /\ hist[1].elig_epoch = 1

\* C6: expired is written by the job only, and only on a row that is verified
\* at the moment of the write.
C6_ExpiredOnlyFromVerified ==
    [][\A u \in Active :
         /\ (ev'.op = "job_expire" /\ ev'.target = u /\ HasRow(students, u)) =>
                Row(u).payment_status = "verified"
         /\ (/\ HasRow(students, u) /\ HasRow(students', u)
             /\ Row(u).payment_status # "expired"
             /\ RowAfter(u).payment_status = "expired") =>
                /\ ev'.op = "job_expire"
                /\ Row(u).payment_status = "verified"]_vars

\* C7: when the job writes expired or sets the notified flag, the row still
\* is what the job read: verified since the date of the snapshot, and for the
\* flag also not notified and with no certificate application.
C7_GuardedWrites ==
    [][\A u \in Active :
         /\ (ev'.op = "job_expire" /\ ev'.target = u /\ HasRow(students, u)) =>
                /\ Row(u).payment_status = "verified"
                /\ Row(u).verification_date = job.cur.verification_date
         /\ (/\ ev'.op = "job_elig" /\ ev'.target = u
             /\ "certificate_eligibility" \in ev'.student) =>
                /\ Row(u).payment_status = "verified"
                /\ Row(u).verification_date = job.cur.verification_date
                /\ ~Row(u).certificate_notified
                /\ Row(u).certificate_status = "none"]_vars

\* C11: when the student's notice of deny, cert_verify or cert_deny fails
\* after the status was written, the status stays written and the admin is
\* sent a text reply about the failure.
C11_NoticeFailureSurfaced ==
    (ev.op \in {"deny", "cert_verify", "cert_deny"} /\ "send_student" \in ev.failed) =>
        /\ HasRow(students, ev.target)
        /\ Written(students, ev.op, ev.target) = Requested(ev.op)
        /\ ev.reply # {}

\* C12 (as stated): once certificate_notified is true on a row, no step sets
\* it back to false.
C12_NotifiedMonotonic ==
    [][\A u \in Active :
         (HasRow(students, u) /\ Row(u).certificate_notified) =>
             (HasRow(students', u) /\ RowAfter(u).certificate_notified)]_vars

\* C12 (amended): once certificate_notified is true on a row, only a new
\* enrollment receipt submission (add_student) sets it back to false; the job,
\* the admin commands and the certificate submission never do.
C12_NotifiedClearedByEnrollmentOnly ==
    [][\A u \in Active :
         (HasRow(students, u) /\ Row(u).certificate_notified) =>
             /\ HasRow(students', u)
             /\ (~RowAfter(u).certificate_notified =>
                     ev'.op = "receive_receipt" /\ ev'.user = u)]_vars

\* the job has expired a row whose flag an earlier run had set
C12_Witness ==
    /\ ev.op = "job_expire"
    /\ HasRow(students, 1)
    /\ Row(1).certificate_notified
    /\ Row(1).payment_status = "expired"
    /\ hist[1].elig_epoch = 1

\* C13 (as stated): verification_date changes only in a step that moves
\* payment_status into verified, and once set it is never cleared.
C13_DateNeverCleared ==
    [][\A u \in Active :
         HasRow(students, u) =>
             /\ HasRow(students', u)
             /\ (RowAfter(u).verification_date # Row(u).verification_date =>
                     /\ Row(u).payment_status # "verified"
                     /\ RowAfter(u).payment_status = "verified")
             /\ (Row(u).verification_date # NoDate =>
                     RowAfter(u).verification_date # NoDate)]_vars

\* C13 (amended): verification_date is set only by verify, in the step that
\* moves payment_status into verified, and to the time of that step; once set
\* it is kept by deny, by the job's expiry and by the certificate operations,
\* and cleared only by a new enrollment receipt submission.
C13_DateSetByVerifyClearedByEnrollment ==
    [][\A u \in Active :
         (HasRow(students, u) /\ RowAfter(u).verification_date # Row(u).verification_date) =>
             \/ /\ ev'.op = "verify" /\ ev'.target = u
                /\ Row(u).payment_status # "verified"
                /\ RowAfter(u).payment_status = "verified"
                /\ RowAfter(u).verification_date = <<now>>
             \/ /\ ev'.op = "receive_receipt" /\ ev'.user = u
                /\ RowAfter(u).verification_date = NoDate
                /\ RowAfter(u).payment_status = "pending"]_vars

\* a verified row has been denied one tick later and keeps its date
C13_Witness ==
    /\ ev.op = "deny"
    /\ HasRow(students, 1)
    /\ Row(1).payment_status = "denied"
    /\ Row(1).verification_date = <<0>>
    /\ now = 1

\* C14: in every reachable state a row whose certificate_status is pending
\* holds a certificate receipt.
C14_PendingCertificateHasReceipt ==
    \A i \in DOMAIN students :
        students[i].certificate_status = "pending" =>
            students[i].certificate_receipt_image # NULL

\* a certificate receipt has been submitted and the application is pending
C14_Witness ==
    /\ ev.op = "receive_certificate_receipt"
    /\ HasRow(students, 1)
    /\ Row(1).certificate_status = "pending"
    /\ Row(1).certificate_receipt_image = "img1"

\* the claim's reading of a phone number: nothing, "0" or "+251" in front,
\* then a 9 or a 7, then eight digits, and nothing else
PhoneShape(s) ==
    LET k == Len(s) - 9
    IN /\ k \in {0, 1, 4}
       /\ k = 1 => s[1] = "0"
       /\ k = 4 => SubSeq(s, 1, 4) = <<"+","2","5","1">>
       /\ s[k + 1] \in {"9", "7"}
       /\ \A i \in (k + 2)..Len(s) : IsDigit(s[i])

\* C15: in ASKING_PHONE_NUMBER a text is accepted (stored, and the course is
\* asked for) exactly when it has the shape of a phone number; otherwise it
\* is refused and the question stays.  0912345678 and +251911223344 have the
\* shape, 123 and abcdefg do not.
C15_PhoneValidation ==
    [][/\ PhoneShape(P_local) /\ PhoneShape(P_intl)
       /\ ~PhoneShape(P_short) /\ ~PhoneShape(P_alpha)
       /\ \A u \in Active :
            (ev'.op = "get_phone_number" /\ ev'.user = u) =>
                IF PhoneShape(ev'.arg)
                THEN /\ enroll_state'[u] = ASKING_COURSE_SELECTION
                     /\ user_data'[u].phone_number = ev'.arg
                     /\ ev'.reply = {"ask_course"}
                ELSE /\ enroll_state'[u] = ASKING_PHONE_NUMBER
                     /\ user_data' = user_data
                     /\ ev'.reply = {"invalid_phone"}]_vars

\* +251911223344 has been accepted
C15_Witness ==
    /\ ev.op = "get_phone_number"
    /\ ev.arg = P_intl
    /\ enroll_state[1] = ASKING_COURSE_SELECTION
    /\ user_data[1].phone_number = P_intl

\* C16: in WAITING_FOR_RECEIPT a text leaves the session and the table as they
\* are; a photo stores a pending row for the caller with the session's name,
\* phone and course and the image, sends the admin a notification and ends
\* the session.
C16_WaitingReceipt ==
    [][\A u \in Active :
         /\ (/\ ev'.op = "text" /\ ev'.user = u
             /\ enroll_state[u] = WAITING_FOR_RECEIPT) =>
                /\ enroll_state'[u] = WAITING_FOR_RECEIPT
                /\ students' = students
         /\ (ev'.op = "receive_receipt" /\ ev'.user = u) =>
                /\ HasRow(students', u)
                /\ RowAfter(u).full_name = user_data[u].full_name
                /\ RowAfter(u).phone_number = user_data[u].phone_number
                /\ RowAfter(u).course_selected = user_data[u].course_selected
                /\ RowAfter(u).payment_receipt_image = ev'.arg
                /\ RowAfter(u).payment_status = "pending"
                /\ ev'.admin # {}
                /\ enroll_state'[u] = END]_vars

\* C17: /cancel in any state of a conversation that is not END ends the
\* session: afterwards the user is in no enrollment and no certificate state;
\* no row changes, nothing is sent to the admin or as a notice, and the reply
\* is the acknowledgement.
C17_CancelEndsSession ==
    [][\A u \in Active :
         (ev'.op = "cancel" /\ ev'.user = u) =>
             /\ enroll_state'[u] = END
             /\ cert_state'[u] = END
             /\ students' = students
             /\ ev'.admin = {}
             /\ ev'.student = {}
             /\ ev'.reply = {"cancel"}]_vars

\* C18: after the re-enroll button the user's enrollment conversation is in
\* ASKING_FULL_NAME, so that the next text is taken as the full name.
C18_ReEnrollCreatesSession ==
    [][\A u \in Active :
         (ev'.op = "re_enroll" /\ ev'.user = u) =>
             enroll_state'[u] = ASKING_FULL_NAME]_vars

\* C19: no user is in a state of the enrollment conversation and in a state
\* of the certificate conversation at once.
C19_SingleActiveSession ==
    \A u \in Users : ~(enroll_state[u] # END /\ cert_state[u] # END)

\* C20: /certificate by a user whose row is verified (its course configured):
\* the certificate conversation enters WAITING_FOR_CERTIFICATE_RECEIPT exactly
\* when now >= verification_date + certificate_wait_days; before that the
\* entry is refused with the days left, and no session is created.
C20_CertificateWaitGate ==
    [][\A u \in Active :
         (/\ ev'.op = "certificate" /\ ev'.user = u
          /\ HasRow(students, u)
          /\ Row(u).payment_status = "verified"
          /\ Row(u).verification_date # NoDate
          /\ Row(u).course_selected \in courses) =>
             LET eligible == Head(Row(u).verification_date)
                               + Days(CourseTable[Row(u).course_selected].certificate_wait_days)
             IN IF now >= eligible
                THEN /\ cert_state'[u] = WAITING_FOR_CERTIFICATE_RECEIPT
                     /\ ev'.reply = {"certificate_ask"}
                ELSE /\ cert_state'[u] = END
                     /\ ev'.reply = {"not_yet_eligible"}
                     /\ ev'.days >= 1]_vars

\* the session was created at the very time the wait of one day ended
C20_Witness ==
    /\ ev.op = "certificate"
    /\ cert_state[1] = WAITING_FOR_CERTIFICATE_RECEIPT
    /\ HasRow(students, 1)
    /\ Row(1).course_selected = "c2"
    /\ Row(1).verification_date = <<0>>
    /\ now = Days(1)

\* C21: a failed eligibility notice leaves certificate_notified false, and
\* the next job run takes the row up again: a row whose last notice attempt
\* failed is among the rows the starting run is going to handle.
C21_FailedNoticeRetried ==
    [][\A u \in Users :
         /\ (ev'.op = "job_elig" /\ ev'.target = u /\ "send" \in ev'.failed) =>
                (HasRow(students', u) /\ ~RowAfter(u).certificate_notified)
         /\ (ev'.op = "job_start" /\ hist[u].elig_owed) =>
                u \in Scheduled(job')]_vars

\* C22: a row whose certificate_notified is true has had an eligibility
\* notice delivered since its last enrollment submission, and the flag goes
\* from false to true only in the job step whose send_message for the
\* eligibility notice to that student has returned.
C22_NotifiedImpliesDelivered ==
    [][\A u \in Active :
         (HasRow(students', u) /\ RowAfter(u).certificate_notified) =>
             /\ hist'[u].elig_epoch >= 1
             /\ (~(HasRow(students, u) /\ Row(u).certificate_notified) =>
                     /\ ev'.op = "job_elig"
                     /\ ev'.target = u
                     /\ "certificate_eligibility" \in ev'.student
                     /\ ev'.failed = {})]_vars

\* the second enrollment of a student has had its own notice delivered
C22_Witness ==
    /\ ev.op = "job_elig"
    /\ "certificate_eligibility" \in ev.student
    /\ HasRow(students, 1)
    /\ Row(1).certificate_notified
    /\ hist[1].elig_total = 2
    /\ hist[1].elig_epoch = 1

\* the steps of a running job, the users it has not reached yet, and the
\* eligibility condition of main.py 138 on a row
JobOps == {"job", "job_expire", "job_elig"}
Waiting(j) == {j.rest[i].user_id : i \in DOMAIN j.rest}
Eligible(r, t) ==
    /\ r.verification_date # NoDate
    /\ t > Head(r.verification_date) + Days(CourseTable[r.course_selected].certificate_wait_days)
    /\ ~r.certificate_notified
    /\ r.certificate_status = "none"

\* C23: within one job run a row whose course is not in the configuration
\* is never acted upon: no write, no notice, no group call.  Whatever the
\* outcome of a step (a failed ban or unban, a failed notice), every verified
\* row the run has not reached yet and that has something due (expiry or the
\* eligibility notice) stays scheduled, the row in hand stays in hand until
\* its admin notice was attempted, and its eligibility is then still
\* evaluated.
C23_SweepIsolation ==
    [][\A u \in Users :
         /\ (/\ ev'.op \in JobOps \cup {"job_start"} /\ HasRow(students, u)
             /\ Row(u).course_selected \notin courses) =>
                /\ ev'.target # u
                /\ RowAfter(u) = Row(u)
                /\ job'.cur.user_id # u
         /\ (/\ ev'.op \in JobOps \cup {"job_start"} /\ HasRow(students, u)
             /\ Row(u).payment_status = "verified"
             /\ Row(u).course_selected \in courses
             /\ (Due(Row(u), now) \/ Eligible(Row(u), now))
             /\ (ev'.op = "job_start" \/ u \in Waiting(job))) => u \in Scheduled(job')
         /\ (ev'.op \in JobOps /\ job.cur.user_id = u /\ job.pc \in {"ban", "unban", "notify_student"}) =>
                /\ job'.cur = job.cur
                /\ job'.rest = job.rest
                /\ job'.pc # "idle"
         /\ (/\ ev'.op \in JobOps /\ job.cur.user_id = u /\ job.pc = "notify_admin"
             /\ Eligible(Row(u), now)) =>
                /\ job'.cur = job.cur
                /\ job'.pc = "elig_send"]_vars

\* in one run at time 3 the first row was expired and its eligibility notice
\* failed; the run has gone on to the second row and expired it with a
\* failed group call
C23_Witness ==
    /\ ev.op = "job_expire"
    /\ ev.target = 2
    /\ ev.failed # {}
    /\ now = 3
    /\ Row(1).payment_status = "expired"
    /\ hist[1].elig_owed
    /\ Row(2).payment_status = "expired"

\* C24: in ASKING_PHONE_NUMBER a text that is not a phone number, and in
\* ASKING_COURSE_SELECTION a text that is not one of the configured course
\* names, leaves the caller's state, the collected fields and the table as
\* they are and is answered by the retry prompt; a matching text stores that
\* one field, changes no other and no row, and moves to the next state.
C24_ValidationSelfLoops ==
    [][\A u \in Active :
         /\ (ev'.op = "get_phone_number" /\ ev'.user = u) =>
                /\ enroll_state[u] = ASKING_PHONE_NUMBER
                /\ students' = students
                /\ IF PhoneShape(ev'.arg)
                   THEN /\ enroll_state'[u] = ASKING_COURSE_SELECTION
                        /\ user_data' = [user_data EXCEPT ![u].phone_number = ev'.arg]
                   ELSE /\ enroll_state' = enroll_state
                        /\ user_data' = user_data
                        /\ ev'.reply = {"invalid_phone"}
         /\ (ev'.op = "get_course_selection" /\ ev'.user = u) =>
                /\ enroll_state[u] = ASKING_COURSE_SELECTION
                /\ students' = students
                /\ IF ev'.arg \in courses
                   THEN /\ enroll_state'[u] = WAITING_FOR_RECEIPT
                        /\ user_data' = [user_data EXCEPT ![u].course_selected = ev'.arg]
                   ELSE /\ enroll_state' = enroll_state
                        /\ user_data' = user_data
                        /\ ev'.reply = {"use_buttons"}]_vars

\* a text that names no course has been refused; the name and the phone
\* number given before are still there
C24_Witness ==
    /\ ev.op = "get_course_selection"
    /\ ev.arg = "zz"
    /\ ev.reply = {"use_buttons"}
    /\ enroll_state[1] = ASKING_COURSE_SELECTION
    /\ user_data[1].full_name = "n2"
    /\ user_data[1].phone_number = P_intl
    /\ user_data[1].course_selected = NULL

\* C25: when a job run reaches a verified row with a known course, it takes
\* the row in hand for expiry exactly when now > verification_date +
\* duration_days (not at equality); payment_status becomes expired only in
\* the expiry step of a row so taken, and in that step it does become
\* expired whether ban and unban returned or raised; the steps that follow
\* are the attempt of the student's notice and then the attempt of the
\* admin's notice.
C25_ExpiryCheck ==
    [][\A u \in Users :
         /\ (/\ ev'.op \in JobOps \cup {"job_start"} /\ HasRow(students, u)
             /\ Row(u).payment_status = "verified"
             /\ Row(u).course_selected \in courses
             /\ (ev'.op = "job_start" \/ u \in Waiting(job))
             /\ u \notin Waiting(job')) =>
                ((job'.pc = "ban" /\ job'.cur.user_id = u) <=> Due(Row(u), now))
         /\ (job'.pc = "ban" /\ job'.cur.user_id = u /\ job.pc # "ban") =>
                /\ Row(u).course_selected \in courses
                /\ Due(Row(u), now)
         /\ (ev'.op = "job_expire" /\ ev'.target = u) =>
                /\ job.pc \in {"ban", "unban"}
                /\ job.cur.user_id = u
                /\ ev'.failed \subseteq {"ban", "unban"}
                /\ RowAfter(u).payment_status = "expired"
                /\ job'.pc = "notify_student"
         /\ (/\ HasRow(students, u) /\ Row(u).payment_status # "expired"
             /\ RowAfter(u).payment_status = "expired") =>
                (ev'.op = "job_expire" /\ ev'.target = u)
         /\ (ev'.op \in JobOps /\ job.cur.user_id = u /\ job.pc = "notify_student") =>
                /\ ("course_expiry_student" \in ev'.student \/ "send" \in ev'.failed)
                /\ job'.pc = "notify_admin"
         /\ (ev'.op \in JobOps /\ job.cur.user_id = u /\ job.pc = "notify_admin") =>
                ("course_expiry_admin" \in ev'.admin \/ "send_admin" \in ev'.failed)]_vars

\* the ban has failed and the first row is expired all the same; the second
\* row, not yet reached, is still verified
C25_Witness ==
    /\ ev.op = "job_expire"
    /\ ev.target = 1
    /\ ev.failed = {"ban"}
    /\ Row(1).payment_status = "expired"
    /\ Row(2).payment_status = "verified"
    /\ job.pc = "notify_student"

\* the claim's reading of eligibility: from the eligibility date on
EligibleFrom(r, t) ==
    /\ r.verification_date # NoDate
    /\ t >= Head(r.verification_date) + Days(CourseTable[r.course_selected].certificate_wait_days)
    /\ ~r.certificate_notified
    /\ r.certificate_status = "none"

\* C26: when a job run evaluates a verified row with a known course for
\* eligibility (a row it reaches and does not take for expiry, or the row in
\* hand after its expiry notices), it goes on to send the eligibility notice
\* exactly when now >= verification_date + certificate_wait_days, the flag is
\* false and certificate_status is none; and a delivered notice sets the flag.
C26_EligibilityFromDate ==
    [][\A u \in Users :
         /\ (/\ ev'.op \in JobOps \cup {"job_start"} /\ HasRow(students, u)
             /\ Row(u).payment_status = "verified"
             /\ Row(u).course_selected \in courses
             /\ ~Due(Row(u), now)
             /\ (ev'.op = "job_start" \/ u \in Waiting(job))
             /\ u \notin Waiting(job')) =>
                ((job'.pc = "elig_send" /\ job'.cur.user_id = u) <=> EligibleFrom(Row(u), now))
         /\ (ev'.op \in JobOps /\ job.pc = "notify_admin" /\ job.cur.user_id = u) =>
                ((job'.pc = "elig_send" /\ job'.cur.user_id = u) <=> EligibleFrom(Row(u), now))
         /\ (ev'.op = "job_elig" /\ ev'.target = u /\ "certificate_eligibility" \in ev'.student) =>
                RowAfter(u).certificate_notified]_vars

\* ticks rounded up to whole days
CeilDays(ticks) == (ticks + TicksPerDay - 1) \div TicksPerDay

\* C27: when /certificate is refused because the eligibility date is still
\* ahead, the day count of the reply is the time left until that date in
\* whole days (a started day counted as one), is at least 1 and is at most
\* the course's certificate_wait_days.
C27_DaysLeft ==
    \A u \in Active :
        (ev.op = "certificate" /\ ev.user = u /\ ev.reply = {"not_yet_eligible"}) =>
            LET wait == CourseTable[Row(u).course_selected].certificate_wait_days
                cert_eligible_date == Head(Row(u).verification_date) + Days(wait)
            IN /\ ev.days = CeilDays(cert_eligible_date - now)
               /\ ev.days >= 1
               /\ ev.days <= wait

\* C28: in WAITING_FOR_CERTIFICATE_RECEIPT a text leaves the certificate
\* session and the table as they are; a photo stores the image as the
\* caller's certificate receipt with certificate_status pending, leaves the
\* row's payment_status, verification_date and certificate_notified as they
\* were, sends the admin channel a notification and ends the session.
C28_WaitingCertReceipt ==
    [][\A u \in Active :
         /\ (/\ ev'.op = "text" /\ ev'.user = u
             /\ cert_state[u] = WAITING_FOR_CERTIFICATE_RECEIPT) =>
                /\ cert_state'[u] = WAITING_FOR_CERTIFICATE_RECEIPT
                /\ students' = students
         /\ (ev'.op = "receive_certificate_receipt" /\ ev'.user = u /\ HasRow(students, u)) =>
                /\ RowAfter(u).certificate_receipt_image = ev'.arg
                /\ RowAfter(u).certificate_status = "pending"
                /\ RowAfter(u).payment_status = Row(u).payment_status
                /\ RowAfter(u).verification_date = Row(u).verification_date
                /\ RowAfter(u).certificate_notified = Row(u).certificate_notified
                /\ ev'.admin # {}
                /\ cert_state'[u] = END]_vars

\* C29: when ban_chat_member or unban_chat_member fails while the job
\* expires a row, the step sends the admin a message about the failure; the
\* job sends users nothing but the expiry and the eligibility notice.
C29_GroupFailureReported ==
    /\ (ev.op = "job_expire" /\ ev.failed \cap {"ban", "unban"} # {}) => ev.admin # {}
    /\ ev.op \in JobOps =>
           /\ ev.reply = {}
           /\ ev.student \subseteq {"course_expiry_student", "certificate_eligibility"}

\* C30 (as stated): a row whose certificate_status is denied leaves denied
\* only by the admin's cert_verify or by a new enrollment receipt submission;
\* the certificate conversation never takes it back to pending.
C30_NoReapplication ==
    [][\A u \in Active :
         (/\ HasRow(students, u) /\ Row(u).certificate_status = "denied"
          /\ RowAfter(u).certificate_status # "denied") =>
             \/ /\ ev'.op = "cert_verify" /\ ev'.target = u
                /\ RowAfter(u).certificate_status = "verified"
             \/ /\ ev'.op = "receive_receipt" /\ ev'.user = u
                /\ RowAfter(u).certificate_status = "none"]_vars

\* C30 (amended): /certificate admits an applicant whose certificate was
\* denied like any other verified student past the eligibility date, and the
\* photo that follows sets certificate_status back to pending; a row leaves
\* denied only by that submission, by the admin's cert_verify or by a new
\* enrollment receipt submission.
C30_DeniedLeftByThreeWays ==
    [][\A u \in Active :
         /\ (/\ HasRow(students, u) /\ Row(u).certificate_status = "denied"
             /\ RowAfter(u).certificate_status # "denied") =>
                \/ /\ ev'.op = "cert_verify" /\ ev'.target = u /\ ev'.user = ADMIN_USER_ID
                   /\ RowAfter(u).certificate_status = "verified"
                \/ /\ ev'.op = "receive_certificate_receipt" /\ ev'.user = u
                   /\ RowAfter(u).certificate_status = "pending"
                \/ /\ ev'.op = "receive_receipt" /\ ev'.user = u
                   /\ RowAfter(u).certificate_status = "none"
         /\ (/\ ev'.op = "certificate" /\ ev'.user = u
             /\ HasRow(students, u) /\ Row(u).certificate_status = "denied"
             /\ Row(u).payment_status = "verified"
             /\ Row(u).course_selected \in courses
             /\ Row(u).verification_date # NoDate
             /\ now >= Head(Row(u).verification_date)
                         + Days(CourseTable[Row(u).course_selected].certificate_wait_days)) =>
                /\ cert_state'[u] = WAITING_FOR_CERTIFICATE_RECEIPT
                /\ ev'.reply = {"certificate_ask"}
                /\ students' = students]_vars

\* an applicant whose certificate was denied has asked again and is being
\* asked for the receipt
C30_Witness ==
    /\ ev.op = "certificate"
    /\ ev.reply = {"certificate_ask"}
    /\ HasRow(students, 1)
    /\ Row(1).certificate_status = "denied"
    /\ Row(1).payment_status = "verified"
    /\ cert_state[1] = WAITING_FOR_CERTIFICATE_RECEIPT

\* C31: deny changes no column of the target's row but payment_status,
\* cert_verify and cert_deny none but certificate_status; a command that
\* writes leaves the column at the value it requests; no other row changes,
\* and none of the three calls ban_chat_member or unban_chat_member.
C31_StatusCommandFrame ==
    [][\A t \in Users :
         (ev'.op \in {"deny", "cert_verify", "cert_deny"} /\ ev'.target = t) =>
            /\ ev'.calls \cap {"ban", "unban"} = {}
            /\ Len(students') = Len(students)
            /\ \A i \in DOMAIN students :
                   students[i].user_id # t => students'[i] = students[i]
            /\ HasRow(students, t) =>
                   /\ HasRow(students', t)
                   /\ RowAfter(t) =
                          IF ev'.op = "deny"
                          THEN [Row(t) EXCEPT !.payment_status = RowAfter(t).payment_status]
                          ELSE [Row(t) EXCEPT !.certificate_status = RowAfter(t).certificate_status]
                   /\ (students' # students =>
                          Written(students', ev'.op, t) = Requested(ev'.op))]_vars

\* a verified student with a pending certificate application has been
\* denied: the date, the application and its receipt are still there
C31_Witness ==
    /\ ev.op = "deny"
    /\ ev.reply = {"verification_fail_admin"}
    /\ HasRow(students, 1)
    /\ Row(1).payment_status = "denied"
    /\ Row(1).verification_date # NoDate
    /\ Row(1).certificate_status = "pending"
    /\ Row(1).certificate_receipt_image # NULL

\* C32: in every reachable state a row whose payment_status is verified has
\* a verification_date and a row whose payment_status is pending has none;
\* every row of the running job's snapshot carries a date, and /certificate
\* never finds a verified row without one.
C32_VerifiedHasDate ==
    /\ \A i \in DOMAIN students :
           /\ students[i].payment_status = "verified" => students[i].verification_date # NoDate
           /\ students[i].payment_status = "pending" => students[i].verification_date = NoDate
    /\ job.pc # "idle" =>
           /\ job.cur.verification_date # NoDate
           /\ \A i \in DOMAIN job.rest : job.rest[i].verification_date # NoDate
    /\ ev.op = "certificate" => ev.reply # {}

\* the job holds a row it read as verified at time 0 while the student has
\* enrolled again: the row is pending and has no date
C32_Witness ==
    /\ job.pc = "ban"
    /\ job.cur.user_id = 1
    /\ job.cur.verification_date = <<0>>
    /\ ev.op = "receive_receipt"
    /\ HasRow(students, 1)
    /\ Row(1).payment_status = "pending"
    /\ Row(1).verification_date = NoDate

\* C33: when a certificate receipt is stored and certificate_status set to
\* pending, the caller's row is verified at that moment, whatever happened
\* to the row since /certificate was accepted.
C33_ApplicationOnlyWhenVerified ==
    [][\A u \in Active :
         (ev'.op = "receive_certificate_receipt" /\ ev'.user = u /\ HasRow(students', u)
          /\ RowAfter(u).certificate_status = "pending"
          /\ RowAfter(u).certificate_receipt_image = ev'.arg) =>
             /\ Row(u).payment_status = "verified"
             /\ RowAfter(u).payment_status = "verified"]_vars

\* C34: with the job kept running, a verified row whose course is configured
\* and whose verification_date + duration_days has passed does not stay
\* verified for ever, whichever of the job's calls fail.
C34_ExpiryLiveness ==
    \A u \in Users :
        (/\ HasRow(students, u)
         /\ Row(u).payment_status = "verified"
         /\ Row(u).course_selected \in courses
         /\ Due(Row(u), now))
        ~> (HasRow(students, u) /\ Row(u).payment_status # "verified")

\* a row has been expired by a run in which the ban and both notices failed
C34_Witness ==
    /\ ev.op = "job"
    /\ "send_admin" \in ev.failed
    /\ job.cur.user_id = 1
    /\ Row(1).payment_status = "expired"
    /\ Row(2).payment_status = "verified"
    /\ Due(Row(2), now)

\* C35: verify by the admin on a row that is not verified and whose course
\* is not configured writes payment_status verified and verification_date =
\* now and nothing else, answers course_not_found, calls neither unban nor
\* send_message; and a job run never takes in hand a row whose course is not
\* configured at that moment.
C35_VerifyUnknownCourse ==
    [][\A t \in Active :
         /\ (/\ ev'.op = "verify" /\ ev'.user = ADMIN_USER_ID /\ ev'.target = t
             /\ HasRow(students, t)
             /\ Row(t).payment_status # "verified"
             /\ Row(t).course_selected \notin courses) =>
                /\ RowAfter(t) = [Row(t) EXCEPT !.payment_status = "verified",
                                                !.verification_date = <<now>>]
                /\ ev'.reply = {"course_not_found"}
                /\ ev'.calls = {}
                /\ ev'.student = {}
         /\ (/\ ev'.op \in JobOps \cup {"job_start"}
             /\ job'.pc # "idle" /\ job'.cur.user_id = t
             /\ (job.pc = "idle" \/ job.cur.user_id # t)) =>
                (HasRow(students, t) /\ Row(t).course_selected \in courses)
         /\ (/\ ev'.op = "job_start" /\ HasRow(students, t)
             /\ Row(t).course_selected \notin courses) =>
                /\ job'.pc = "idle"
                /\ students' = students
                /\ ev'.student = {}]_vars

\* the admin has verified, at time 1, a row whose course is not configured
C35_Witness ==
    /\ ev.op = "verify"
    /\ ev.reply = {"course_not_found"}
    /\ ev.calls = {}
    /\ now = 1
    /\ HasRow(students, 1)
    /\ Row(1).payment_status = "verified"
    /\ Row(1).verification_date = <<1>>
    /\ Row(1).course_selected \notin courses

\* C36: when a verified student whose eligibility date has come, and who is
\* in no certificate session, presses the apply button of the eligibility
\* notice, the certificate session starts in WAITING_FOR_CERTIFICATE_RECEIPT
\* and the student is asked for the receipt, as /certificate would do.
C36_ApplyButtonStartsSession ==
    [][\A u \in Active :
         (/\ ev'.op = "start_certificate" /\ ev'.user = u
          /\ cert_state[u] = END
          /\ IsEnrolled(students, u)
          /\ Row(u).course_selected \in courses
          /\ Row(u).verification_date # NoDate
          /\ ~not_yet_eligible(now, Head(Row(u).verification_date)
                  + Days(CourseTable[Row(u).course_selected].certificate_wait_days))) =>
             /\ cert_state'[u] = WAITING_FOR_CERTIFICATE_RECEIPT
             /\ ev'.reply = {"certificate_ask"}]_vars
====
